---- MODULE Spec2Model ----
(***************************************************************************)
(* Model of the recommendation engine of the Burgh Event Planner           *)
(* (src/recommend.py): candidate normalisation, the three filters, the     *)
(* scorer and the flexible-match orchestrator                              *)
(* select_ranked_candidates_with_flexible_filters.                         *)
(*                                                                         *)
(* Representation.                                                         *)
(*  - A table (DataFrame) is a sequence of records, one per row.           *)
(*  - Text is a TLA+ string; str.lower() and the date/time parsers are     *)
(*    tables over the finite vocabulary of the model.                      *)
(*  - A price text is its sequence of tokens (numbers in cents, words).    *)
(*  - A timestamp is a record [day, hour]; NaT is the absent timestamp.    *)
(*  - Money is in cents.  A price score is the numerator of a fraction     *)
(*    over 10 * ScoreScale(budget), a time score the numerator over 100,   *)
(*    an overall score the numerator over 10000 * ScoreScale(budget).      *)
(*    The budget is the same in every stage of one request, so scores of   *)
(*    one request compare as their numerators do.                          *)
(***************************************************************************)
EXTENDS Integers, Sequences, FiniteSets, TLC

\* ------------------------------------------------------------------ bounds

\* The longest table a single filter is called on.
MaxFilterRows == 2

\* The longest enumerated price text, in tokens.
MaxPriceTokens == 4

\* The request threads of the web server, and the requests they handle.
MaxThreads == 2
MaxRequests == 3

\* Largest number of rows of an input table.
MaxRows == 3

\* ------------------------------------------------------------- vocabulary

NoneValue == "None"
NaT == [day |-> -1, hour |-> -1]
NaN == -1

Max(a, b) == IF a >= b THEN a ELSE b
Abs(a) == IF a >= 0 THEN a ELSE 0 - a

\* str.lower() on the vocabulary of the model.
Lower(s) ==
  CASE s = "A" -> "a"
    [] s = "EB" -> "eb"
    [] s = "Hall" -> "hall"
    [] s = "Night" -> "night"
    [] s = "Morning" -> "morning"
    [] s = "Evening" -> "evening"
    [] s = "ANY" -> "any"
    [] s = "TO" -> "to"
    [] s = "FREE" -> "free"
    [] s = "Free" -> "free"
    [] s = "N/A" -> "n/a"
    [] OTHER -> s

\* pd.to_datetime(text, errors="coerce") on a date text: the day of
\* February 2026 it names, or NaN when the text is no date.
ParseDate(text) ==
  CASE text = "2026-02-10" -> 10
    [] text = "Feb 10 2026" -> 10
    [] text = "2026-02-11" -> 11
    [] text = "2026-02-13" -> 13
    [] text = "2026-02-14" -> 14
    [] OTHER -> NaN

\* The hour of a time text, or NaN when the text is no time of day.
ParseHour(text) ==
  CASE text = "10:00" -> 10
    [] text = "14:00" -> 14
    [] text = "19:00" -> 19
    [] OTHER -> NaN

\* ------------------------------------------------------------ constants

PERIODS == <<"morning", "afternoon", "evening">>
VALID_PERIODS == {"morning", "afternoon", "evening", "any"}

PERIOD_INDEX(period) ==
  CASE period = "morning" -> 0
    [] period = "afternoon" -> 1
    [] period = "evening" -> 2

MATCH_LEVEL_EXACT == "exact"
MATCH_LEVEL_FLEXIBLE_PERIOD == "flexible_period"
MATCH_LEVEL_FLEXIBLE_DATE == "flexible_date"
MATCH_LEVEL_FLEXIBLE_PERIOD_AND_DATE == "flexible_period_and_date"

MATCH_LEVEL_PRIORITY(level) ==
  CASE level = MATCH_LEVEL_EXACT -> 0
    [] level = MATCH_LEVEL_FLEXIBLE_PERIOD -> 1
    [] level = MATCH_LEVEL_FLEXIBLE_DATE -> 2
    [] level = MATCH_LEVEL_FLEXIBLE_PERIOD_AND_DATE -> 3
    [] OTHER -> 99

FLEXIBLE_DATE_WINDOW_DAYS == 3

\* --------------------------------------------------------- normalisation

Range(seq) == {seq[i] : i \in 1..Len(seq)}

\* required_columns of _prepare_candidates
REQUIRED_COLUMNS ==
  <<"name", "date", "time", "location", "price", "source", "url">>

\* missing_columns: the required columns a table with these columns lacks, in
\* the order of required_columns.
MissingColumns(cols) == SelectSeq(REQUIRED_COLUMNS, LAMBDA c : c \notin cols)

\* _prepare_candidates raises ValueError: the table is not empty and a
\* required column is missing.  The empty table is returned as a copy before
\* the columns are looked at.
PrepareRaises(df, cols) == df # <<>> /\ MissingColumns(cols) # <<>>

_normalize_period(value) ==
  LET text == Lower(IF value = NoneValue THEN "" ELSE value)
  IN  IF text \in VALID_PERIODS THEN text ELSE "any"

\* The requested day, or NaN for no date (None, empty or unparseable).
_normalize_event_date(value) ==
  LET text == IF value = NoneValue THEN "" ELSE value
  IN  IF text = "" THEN NaN ELSE ParseDate(text)

_hour_to_period(hour) ==
  IF 5 <= hour /\ hour < 12 THEN "morning"
  ELSE IF 12 <= hour /\ hour < 17 THEN "afternoon"
  ELSE "evening"

\* A token of a price text: a number (in cents) or a word.  The text is its
\* tokens written one after the other; the word " " is a blank.
Num(n) == [kind |-> "num", num |-> n, word |-> ""]
Word(w) == [kind |-> "word", num |-> 0, word |-> w]

IsNumber(token) == token.kind = "num"

\* re.findall of the numeric tokens, in order.
Numbers(tokens) ==
  LET found == SelectSeq(tokens, IsNumber)
  IN  [i \in 1..Len(found) |-> found[i].num]

\* word in text.lower()
HasWord(tokens, word) ==
  \E i \in 1..Len(tokens) : tokens[i].kind = "word" /\ Lower(tokens[i].word) = word

\* round(x / 2, 2) for x in cents: a half cent rounds to the even cent.
RoundHalfEven(x) ==
  IF x % 2 = 0 THEN x \div 2
  ELSE IF ((x - 1) \div 2) % 2 = 0 THEN (x - 1) \div 2 ELSE (x + 1) \div 2

IsBlank(token) == token.kind = "word" /\ token.word = " "

RECURSIVE StripLeft(_)
StripLeft(tokens) ==
  IF tokens # <<>> /\ IsBlank(Head(tokens)) THEN StripLeft(Tail(tokens))
  ELSE tokens

RECURSIVE StripRight(_)
StripRight(tokens) ==
  IF tokens # <<>> /\ IsBlank(tokens[Len(tokens)])
  THEN StripRight(SubSeq(tokens, 1, Len(tokens) - 1))
  ELSE tokens

\* str.strip()
Strip(tokens) == StripRight(StripLeft(tokens))

\* " word " in text.lower(): the word with a blank on each side.
HasSpacedWord(tokens, word) ==
  \E i \in 2..(Len(tokens) - 1) :
    /\ IsBlank(tokens[i - 1])
    /\ tokens[i].kind = "word" /\ Lower(tokens[i].word) = word
    /\ IsBlank(tokens[i + 1])

\* The price parser that never takes a midpoint.
parse_price_text_first_number(value) ==
  LET text == Strip(value)
  IN  IF text = <<>> \/ (Len(text) = 1 /\ HasWord(text, "n/a")) THEN 0
      ELSE IF HasWord(text, "free") THEN 0
      ELSE LET numbers == Numbers(text)
           IN  IF numbers = <<>> THEN 0 ELSE numbers[1]

\* The cost in cents of a price text, given as its tokens.
_parse_price_text(value) ==
  LET text == Strip(value)
  IN  IF text = <<>> \/ (Len(text) = 1 /\ HasWord(text, "n/a")) THEN 0
      ELSE IF HasWord(text, "free") THEN 0
      ELSE LET numbers == Numbers(text)
           IN  IF numbers = <<>> THEN 0
               ELSE IF /\ Len(numbers) >= 2
                       /\ (HasWord(text, "-") \/ HasSpacedWord(text, "to"))
                    THEN RoundHalfEven(numbers[1] + numbers[2])
                    ELSE numbers[1]

\* The timestamp of a row: date and time together, else the date alone
\* (midnight), else NaT.
_coerce_start_time(row) ==
  LET day == ParseDate(row.date)
      hour == ParseHour(row.time)
  IN  IF day = NaN THEN NaT
      ELSE IF hour = NaN THEN [day |-> day, hour |-> 0]
      ELSE [day |-> day, hour |-> hour]

\* The subset drop_duplicates compares: the columns as they are.
DuplicateSubset(row) ==
  <<row.source, row.name, row.date, row.time, row.location>>

RECURSIVE DropDuplicates(_, _)
\* DataFrame.drop_duplicates(subset=...): keeps the first row of each key.
DropDuplicates(rows, kept) ==
  IF rows = <<>> THEN kept
  ELSE IF \E i \in 1..Len(kept) : DuplicateSubset(kept[i]) = DuplicateSubset(Head(rows))
       THEN DropDuplicates(Tail(rows), kept)
       ELSE DropDuplicates(Tail(rows), Append(kept, Head(rows)))

HasName(row) == row.name # ""

Candidate(row) ==
  [name |-> row.name, date |-> row.date, time |-> row.time,
   location |-> row.location, price |-> row.price, source |-> row.source,
   url |-> row.url,
   estimated_cost |-> _parse_price_text(row.price),
   start_time |-> _coerce_start_time(row)]

_prepare_candidates(df) ==
  LET prepared == [i \in 1..Len(df) |-> Candidate(df[i])]
  IN  DropDuplicates(SelectSeq(prepared, HasName), <<>>)

\* --------------------------------------------------------------- filters

\* The price filter with its lower bound alone.
filter_by_price_min_only(df, min_price, max_price) ==
  IF df = <<>> THEN df
  ELSE IF min_price <= 0 /\ max_price <= 0 THEN df
  ELSE SelectSeq(df, LAMBDA row : min_price > 0 => row.estimated_cost >= min_price)

\* The price filter with its upper bound exclusive.
filter_by_price_below_max(df, min_price, max_price) ==
  IF df = <<>> THEN df
  ELSE IF min_price <= 0 /\ max_price <= 0 THEN df
  ELSE SelectSeq(df, LAMBDA row :
         /\ (min_price > 0 => row.estimated_cost >= min_price)
         /\ (max_price > 0 => row.estimated_cost < max_price))

filter_by_price(df, min_price, max_price) ==
  IF df = <<>> THEN df
  ELSE IF min_price <= 0 /\ max_price <= 0 THEN df
  ELSE SelectSeq(df, LAMBDA row :
         /\ (min_price > 0 => row.estimated_cost >= min_price)
         /\ (max_price > 0 => row.estimated_cost <= max_price))

\* The period filter keeping the rows that have no start time.
filter_by_time_period_keeps_untimed(df, preferred_period) ==
  LET target_period == _normalize_period(preferred_period)
  IN  IF df = <<>> THEN df
      ELSE IF target_period = "any" THEN df
      ELSE SelectSeq(df, LAMBDA row :
             IF row.start_time # NaT
             THEN _hour_to_period(row.start_time.hour) = target_period
             ELSE TRUE)

filter_by_time_period(df, preferred_period) ==
  LET target_period == _normalize_period(preferred_period)
  IN  IF df = <<>> THEN df
      ELSE IF target_period = "any" THEN df
      ELSE SelectSeq(df, LAMBDA row :
             IF row.start_time # NaT
             THEN _hour_to_period(row.start_time.hour) = target_period
             ELSE FALSE)

\* The date filter returning the whole table when no row is on the day.
filter_by_event_date_or_all(df, event_date) ==
  LET target_date == _normalize_event_date(event_date)
      on_target_date == SelectSeq(df, LAMBDA row :
                          row.start_time # NaT /\ row.start_time.day = target_date)
  IN  IF df = <<>> THEN df
      ELSE IF target_date = NaN THEN df
      ELSE IF on_target_date = <<>> THEN df
      ELSE on_target_date

filter_by_event_date(df, event_date) ==
  LET target_date == _normalize_event_date(event_date)
  IN  IF df = <<>> THEN df
      ELSE IF target_date = NaN THEN df
      ELSE SelectSeq(df, LAMBDA row :
             row.start_time # NaT /\ row.start_time.day = target_date)

\* ---------------------------------------------------------------- scorer

\* The floor 1e-9 (dollars) of the denominator max(budget, 1e-9), in a money
\* unit of which per_cent make one cent: 10 when the unit is 1e-10 dollars
\* (per_cent = 10^8).  When the unit is the cent the floor is 1e-7 units,
\* below every positive whole amount, and max(budget, 1e-7) = max(budget, 0).
BudgetFloor(per_cent) == per_cent \div 10000000

\* max(budget, 1e-9)
FlooredBudget(budget, per_cent) == Max(budget, BudgetFloor(per_cent))

\* The denominators of the scores of a request with this budget.
ScoreScaleIn(budget, per_cent) ==
  IF budget > 0 THEN FlooredBudget(budget, per_cent) ELSE 1

\* _budget_score on amounts in a money unit of which per_cent make one cent:
\* the price score, as the numerator over 10 * ScoreScaleIn(budget, per_cent).
BudgetScoreIn(cost, budget, per_cent) ==
  LET floored == FlooredBudget(budget, per_cent)
  IN  IF budget <= 0 THEN 7
      ELSE IF cost <= budget THEN Max(4 * floored, 10 * floored - 6 * cost)
      ELSE IF 10 * (cost - budget) <= floored THEN 2 * floored
      ELSE IF 4 * (cost - budget) <= floored THEN floored
      ELSE 0

\* The denominators of the scores of a request with this budget in cents.
ScoreScale(budget) == ScoreScaleIn(budget, 1)

\* The price score of amounts in cents, as the numerator over
\* 10 * ScoreScale(budget).
_budget_score(cost, budget) == BudgetScoreIn(cost, budget, 1)

\* The time score with the scores of the distances 1 and 2 exchanged.
TimeScoreFarBeatsNear(timestamp, prefs) ==
  LET preferred_period == _normalize_period(prefs.preferred_period)
  IN  IF preferred_period = "any" THEN 100
      ELSE IF timestamp = NaT THEN 20
      ELSE LET event_period == _hour_to_period(timestamp.hour)
               distance == Abs(PERIOD_INDEX(event_period) - PERIOD_INDEX(preferred_period))
           IN  IF distance = 0 THEN 100
               ELSE IF distance = 1 THEN 25
               ELSE 55

\* The time score, as the numerator over 100.
_time_score(timestamp, prefs) ==
  LET preferred_period == _normalize_period(prefs.preferred_period)
  IN  IF preferred_period = "any" THEN 100
      ELSE IF timestamp = NaT THEN 20
      ELSE LET event_period == _hour_to_period(timestamp.hour)
               distance == Abs(PERIOD_INDEX(event_period) - PERIOD_INDEX(preferred_period))
           IN  IF distance = 0 THEN 100
               ELSE IF distance = 1 THEN 55
               ELSE 25

\* 0.55 * price_score + 0.45 * time_score, as the numerator over
\* 10000 * ScoreScale(budget).
OverallScore(price_score, time_score, budget) ==
  550 * price_score + 45 * time_score * ScoreScale(budget)

Scored(row, prefs) ==
  [name |-> row.name, date |-> row.date, time |-> row.time,
   location |-> row.location, price |-> row.price, source |-> row.source,
   url |-> row.url, estimated_cost |-> row.estimated_cost,
   start_time |-> row.start_time,
   price_score |-> _budget_score(row.estimated_cost, prefs.budget),
   time_score |-> _time_score(row.start_time, prefs),
   overall_score |-> OverallScore(_budget_score(row.estimated_cost, prefs.budget),
                                  _time_score(row.start_time, prefs), prefs.budget),
   _date_distance_days |-> NaN,
   _match_level |-> ""]

\* Lexicographic order of two key tuples of the same length.
LexLess(a, b) ==
  \E i \in 1..Len(a) : a[i] < b[i] /\ \A j \in 1..(i - 1) : a[j] = b[j]

RECURSIVE InsertIndex(_, _, _)
\* Insert index i after every index of the sorted order whose key is not
\* strictly greater: the sort is stable.
InsertIndex(order, i, key) ==
  IF order = <<>> THEN <<i>>
  ELSE IF LexLess(key[i], key[Head(order)]) THEN <<i>> \o order
  ELSE <<Head(order)>> \o InsertIndex(Tail(order), i, key)

RECURSIVE SortOrder(_, _)
\* The order in which a stable ascending sort puts the first n indices.
SortOrder(key, n) ==
  IF n = 0 THEN <<>> ELSE InsertIndex(SortOrder(key, n - 1), n, key)

\* A sort that puts rows of equal keys in the reverse of their input order.
SortValuesTiesReversed(df, key) ==
  LET order == SortOrder([i \in 1..Len(df) |-> key[i] \o <<0 - i>>], Len(df))
  IN  [k \in 1..Len(df) |-> df[order[k]]]

\* DataFrame.sort_values on several columns, given each row's key tuple
\* (a descending column enters negated): a stable sort.
SortValues(df, key) ==
  LET order == SortOrder(key, Len(df))
  IN  [k \in 1..Len(df) |-> df[order[k]]]

\* by=["overall_score", "time_score"], ascending=[False, False]
ScoreSortKey(row) == <<0 - row.overall_score, 0 - row.time_score>>

score_candidates(df, prefs) ==
  LET prepared == _prepare_candidates(df)
      preferred_period == _normalize_period(prefs.preferred_period)
      by_price == filter_by_price(prepared, Max(0, prefs.min_price), Max(0, prefs.budget))
      by_period == filter_by_time_period(by_price, preferred_period)
      filtered == filter_by_event_date(by_period, prefs.event_date)
      scored == [i \in 1..Len(filtered) |-> Scored(filtered[i], prefs)]
  IN  IF prepared = <<>> THEN prepared
      ELSE IF filtered = <<>> THEN filtered
      ELSE SortValues(scored, [i \in 1..Len(scored) |-> ScoreSortKey(scored[i])])

\* --------------------------------------------- flexible-match orchestrator

_candidate_identity(row) ==
  <<Lower(row.source), Lower(row.name), row.date, row.time, Lower(row.location)>>

Stage(level, stage_prefs) == [level |-> level, prefs |-> stage_prefs]

\* The stage list whose FLEXIBLE_PERIOD variant clears the date as well.
StagesPeriodStageClearsDate(prefs) ==
  LET has_period_filter == _normalize_period(prefs.preferred_period) # "any"
      has_date_filter == _normalize_event_date(prefs.event_date) # NaN
  IN  <<Stage(MATCH_LEVEL_EXACT, prefs)>>
      \o (IF has_period_filter
          THEN <<Stage(MATCH_LEVEL_FLEXIBLE_PERIOD,
                       [prefs EXCEPT !.preferred_period = "any",
                                     !.event_date = NoneValue])>>
          ELSE <<>>)
      \o (IF has_date_filter /\ prefs.allow_flexible_dates
          THEN <<Stage(MATCH_LEVEL_FLEXIBLE_DATE,
                       [prefs EXCEPT !.event_date = NoneValue])>>
          ELSE <<>>)
      \o (IF has_period_filter /\ has_date_filter /\ prefs.allow_flexible_dates
          THEN <<Stage(MATCH_LEVEL_FLEXIBLE_PERIOD_AND_DATE,
                       [prefs EXCEPT !.preferred_period = "any",
                                     !.event_date = NoneValue])>>
          ELSE <<>>)

\* The stage list with the date relaxed whenever a date was requested, the
\* allow_flexible_dates flag ignored.
StagesIgnoringFlag(prefs) ==
  LET has_period_filter == _normalize_period(prefs.preferred_period) # "any"
      has_date_filter == _normalize_event_date(prefs.event_date) # NaN
  IN  <<Stage(MATCH_LEVEL_EXACT, prefs)>>
      \o (IF has_period_filter
          THEN <<Stage(MATCH_LEVEL_FLEXIBLE_PERIOD,
                       [prefs EXCEPT !.preferred_period = "any"])>>
          ELSE <<>>)
      \o (IF has_date_filter
          THEN <<Stage(MATCH_LEVEL_FLEXIBLE_DATE,
                       [prefs EXCEPT !.event_date = NoneValue])>>
          ELSE <<>>)
      \o (IF has_period_filter /\ has_date_filter
          THEN <<Stage(MATCH_LEVEL_FLEXIBLE_PERIOD_AND_DATE,
                       [prefs EXCEPT !.preferred_period = "any",
                                     !.event_date = NoneValue])>>
          ELSE <<>>)

_build_flexible_filter_stages(prefs) ==
  LET has_period_filter == _normalize_period(prefs.preferred_period) # "any"
      has_date_filter == _normalize_event_date(prefs.event_date) # NaN
  IN  <<Stage(MATCH_LEVEL_EXACT, prefs)>>
      \o (IF has_period_filter
          THEN <<Stage(MATCH_LEVEL_FLEXIBLE_PERIOD,
                       [prefs EXCEPT !.preferred_period = "any"])>>
          ELSE <<>>)
      \o (IF has_date_filter /\ prefs.allow_flexible_dates
          THEN <<Stage(MATCH_LEVEL_FLEXIBLE_DATE,
                       [prefs EXCEPT !.event_date = NoneValue])>>
          ELSE <<>>)
      \o (IF has_period_filter /\ has_date_filter /\ prefs.allow_flexible_dates
          THEN <<Stage(MATCH_LEVEL_FLEXIBLE_PERIOD_AND_DATE,
                       [prefs EXCEPT !.preferred_period = "any",
                                     !.event_date = NoneValue])>>
          ELSE <<>>)

\* The distance in days of a timestamp from the target day, NaN for NaT.
DateDistance(timestamp, target_date) ==
  IF timestamp = NaT THEN NaN ELSE Abs(timestamp.day - target_date)

_filter_to_nearby_dates(scored_df, target_date, max_distance_days) ==
  IF scored_df = <<>> \/ target_date = NaN THEN scored_df
  ELSE LET filtered == [i \in 1..Len(scored_df) |->
                          [scored_df[i] EXCEPT !._date_distance_days =
                             DateDistance(scored_df[i].start_time, target_date)]]
       IN  SelectSeq(filtered, LAMBDA row :
             row._date_distance_days # NaN
             /\ row._date_distance_days <= max_distance_days)

\* The nearby-date window applied to the FLEXIBLE_DATE stage alone.
StageFiltersDateStageOnly(scored_df, stage_level, user_prefs) ==
  IF stage_level # MATCH_LEVEL_FLEXIBLE_DATE
  THEN scored_df
  ELSE _filter_to_nearby_dates(scored_df, _normalize_event_date(user_prefs.event_date),
                               FLEXIBLE_DATE_WINDOW_DAYS)

_apply_stage_specific_filters(scored_df, stage_level, user_prefs) ==
  IF stage_level \notin {MATCH_LEVEL_FLEXIBLE_DATE, MATCH_LEVEL_FLEXIBLE_PERIOD_AND_DATE}
  THEN scored_df
  ELSE _filter_to_nearby_dates(scored_df, _normalize_event_date(user_prefs.event_date),
                               FLEXIBLE_DATE_WINDOW_DAYS)

\* The target without its floor of one.
TargetNoFloor(p) == p.max_results

\* target = max(1, int(prefs.max_results))
Target(p) == Max(1, p.max_results)

RECURSIVE WalkRowsOnePerStage(_, _, _, _)
\* The inner loop leaving the stage after the first row it appends.
WalkRowsOnePerStage(rows, chosen, level, target) ==
  IF rows = <<>> THEN chosen
  ELSE IF \E i \in 1..Len(chosen) :
            _candidate_identity(chosen[i]) = _candidate_identity(Head(rows))
       THEN WalkRowsOnePerStage(Tail(rows), chosen, level, target)
       ELSE Append(chosen, [Head(rows) EXCEPT !._match_level = level])

RECURSIVE WalkRowsNoSeen(_, _, _, _)
\* The inner loop without the test of the identities selected already.
WalkRowsNoSeen(rows, chosen, level, target) ==
  IF rows = <<>> THEN chosen
  ELSE LET appended == Append(chosen, [Head(rows) EXCEPT !._match_level = level])
       IN  IF Len(appended) >= target THEN appended
           ELSE WalkRowsNoSeen(Tail(rows), appended, level, target)

RECURSIVE WalkRows(_, _, _, _)
\* The inner loop over the rows of one stage: skip a row whose identity was
\* selected already, tag and append any other, stop at the target.
WalkRows(rows, chosen, level, target) ==
  IF rows = <<>> THEN chosen
  ELSE IF \E i \in 1..Len(chosen) :
            _candidate_identity(chosen[i]) = _candidate_identity(Head(rows))
       THEN WalkRows(Tail(rows), chosen, level, target)
       ELSE LET appended == Append(chosen, [Head(rows) EXCEPT !._match_level = level])
            IN  IF Len(appended) >= target THEN appended
                ELSE WalkRows(Tail(rows), appended, level, target)

\* The final sort without its first column: rows ordered by date distance and
\* score alone.
SelectedSortKeyNoPriority(row) ==
  <<0,
    IF row._date_distance_days = NaN THEN 0 ELSE row._date_distance_days,
    0 - row.overall_score,
    0 - row.time_score>>

\* The final sort without its date-distance column.
SelectedSortKeyNoDistance(row) ==
  <<MATCH_LEVEL_PRIORITY(row._match_level),
    0,
    0 - row.overall_score,
    0 - row.time_score>>

\* The final sort with overall_score ascending.
SelectedSortKeyScoreAscending(row) ==
  <<MATCH_LEVEL_PRIORITY(row._match_level),
    IF row._date_distance_days = NaN THEN 0 ELSE row._date_distance_days,
    row.overall_score,
    0 - row.time_score>>

\* by=["_match_priority", "_date_distance_sort", "overall_score", "time_score"],
\* ascending=[True, True, False, False]
SelectedSortKey(row) ==
  <<MATCH_LEVEL_PRIORITY(row._match_level),
    IF row._date_distance_days = NaN THEN 0 ELSE row._date_distance_days,
    0 - row.overall_score,
    0 - row.time_score>>

Head_(df, n) == SubSeq(df, 1, IF Len(df) < n THEN Len(df) ELSE n)

CountLevel(df, level) ==
  Cardinality({i \in 1..Len(df) : df[i]._match_level = level})

\* --------------------------------------------------------------- suggestions

MATCH_LEVEL_LABEL(level) ==
  CASE level = MATCH_LEVEL_FLEXIBLE_PERIOD -> "Flexible match (time flexible)"
    [] level = MATCH_LEVEL_FLEXIBLE_DATE -> "Flexible match (date flexible)"
    [] level = MATCH_LEVEL_FLEXIBLE_PERIOD_AND_DATE ->
         "Flexible match (date and time flexible)"
    [] OTHER -> "Exact match"

\* strftime("%Y-%m-%d %H:%M") of a present timestamp as its day and hour, the
\* empty text for an absent one.
FormatStartTime(timestamp) ==
  IF timestamp = NaT THEN <<>> ELSE <<timestamp.day, timestamp.hour>>

\* float(value or 0.0): only a falsy value (zero) is replaced, NaN is kept.
OrZero(value) == IF value = 0 THEN 0 ELSE value

_row_to_stop(row) ==
  [name |-> row.name, category |-> "event", location |-> row.location,
   estimated_cost |-> OrZero(row.estimated_cost),
   source |-> row.source, start_time |-> FormatStartTime(row.start_time),
   url |-> row.url]

\* round(overall_score, 4): the overall score in ten-thousandths, from its
\* numerator over 10000 * scale.
RoundScore(numerator, scale) ==
  LET q == numerator \div scale
      r == numerator % scale
  IN  IF 2 * r < scale THEN q
      ELSE IF 2 * r > scale THEN q + 1
      ELSE IF q % 2 = 0 THEN q ELSE q + 1

\* The suggestion built from the row at position index of the table.
Suggestion(row, index, budget) ==
  LET match_level ==
        IF row._match_level = "" THEN MATCH_LEVEL_EXACT ELSE row._match_level
  IN  [plan_name |-> <<"Event Suggestion #", index>>,
       total_estimated_cost |-> OrZero(row.estimated_cost),
       score |-> RoundScore(row.overall_score, ScoreScale(budget)),
       match_level |-> match_level,
       match_label |-> MATCH_LEVEL_LABEL(match_level),
       stops |-> <<_row_to_stop(row)>>,
       backup_idea |-> ""]

\* build_event_suggestions numbering the suggestions from 0.
build_event_suggestions_from_zero(scored_table, p) ==
  LET top == Head_(scored_table, Max(1, p.max_results))
  IN  [i \in 1..Len(top) |-> Suggestion(top[i], i - 1, p.budget)]

build_event_suggestions(scored_table, p) ==
  IF scored_table = <<>> THEN <<>>
  ELSE LET top == Head_(scored_table, Max(1, p.max_results))
       IN  [i \in 1..Len(top) |-> Suggestion(top[i], i, p.budget)]

\* ------------------------------------------------------------------ inputs

EventRow(name, date, time, price, source) ==
  [name |-> name, date |-> date, time |-> time, location |-> "Hall",
   price |-> price, source |-> source, url |-> "u"]

RowA == EventRow("A", "2026-02-10", "10:00", <<Word("$"), Num(2000)>>, "eb")
RowB == EventRow("B", "2026-02-10", "14:00", <<Word("$"), Num(9000)>>, "eb")
RowC == EventRow("C", "2026-02-10", "19:00", <<Word("$"), Num(3000)>>, "eb")
RowALower == EventRow("a", "2026-02-10", "10:00", <<Word("$"), Num(2000)>>, "eb")
RowD == EventRow("D", "2026-02-11", "19:00", <<Word("$"), Num(3000)>>, "eb")
RowE == EventRow("E", "2026-02-13", "10:00", <<Word("Free")>>, "eb")
RowF == EventRow("F", "2026-02-14", "10:00", <<Word("Free")>>, "eb")
RowG == EventRow("G", "N/A", "10:00", <<Word("$"), Num(1000)>>, "eb")

\* The rows an input table is made of.
Catalogue == {RowA, RowB, RowC, RowALower, RowD, RowE, RowF, RowG}

RECURSIVE TablesOfLength(_)
TablesOfLength(n) ==
  IF n = 0 THEN {<<>>}
  ELSE {Append(t, r) : t \in TablesOfLength(n - 1), r \in Catalogue}

Tables == UNION {TablesOfLength(n) : n \in 0..MaxRows}

Budgets == {0, 5000}
\* "Night" is no period: it normalises to "any".
PeriodInputs == {"morning", "Night"}
DateInputs == {NoneValue, "Feb 10 2026", "soon"}
MaxResultsInputs == {0, 2}

Preferences ==
  [budget : Budgets, preferred_period : PeriodInputs, max_results : MaxResultsInputs,
   min_price : {0}, event_date : DateInputs, allow_flexible_dates : BOOLEAN]

\* ------------------------------------------------------------------- state

VARIABLES
  df,               \* the caller's input table
  prefs,            \* the caller's UserPreferences
  pc,               \* "call", "loop" or "done"
  target,           \* max(1, max_results)
  stages,           \* the stages still to run
  selected_rows,    \* the rows selected so far, in selection order
  exact_available,  \* len(scored) of the EXACT stage
  stage_scored,     \* history: level, preferences and table of every stage run
  selected,         \* the returned table
  diagnostics,      \* the returned diagnostics
  prepared,         \* history: the candidate table of the last stage run
  columns,          \* the columns of the caller's input table
  scored_df,        \* generate_suggestions: the table score_candidates returned
  error,            \* generate_suggestions: the columns the ValueError names
  suggestions,      \* generate_suggestions: the list it returned
  call,             \* a single call of a helper: the function and its arguments
  result,           \* the value that call returned
  df_before,        \* history: the input table as it was when the call began
  prefs_before,     \* history: the preferences as they were when the call began
  _EVENTS_DF,       \* main.py: the cached dataset, or None
  _LOAD_ERROR,      \* main.py: the recorded load error, or None
  threads,          \* the web server's request threads: position and locals
  requests,         \* the number of requests started
  loads,            \* history: the number of calls of load_events_df
  returns,          \* history: the values get_cached_df returned, in order
  responses         \* history: the responses of the routes, in order

\* The state of select_ranked_candidates_with_flexible_filters.
selectVars == <<target, stages, selected_rows, exact_available, stage_scored,
                selected, diagnostics, prepared>>

\* The state of generate_suggestions.
generateVars == <<scored_df, error, suggestions>>

\* The state of a single call of a helper.
callVars == <<call, result>>

\* The caller's inputs as they were when the call began.
beforeVars == <<df_before, prefs_before>>

\* The state of the web front end's dataset cache and of its requests.
cacheVars ==
  <<_EVENTS_DF, _LOAD_ERROR, threads, requests, loads, returns, responses>>

vars == <<df, prefs, pc, columns, selectVars, generateVars, callVars, beforeVars,
          cacheVars>>

\* The request threads of the web server.
Threads == 1..MaxThreads

\* A thread that handles no request.
IdleThread == [at |-> "idle", route |-> "", loaded |-> NoneValue, df |-> NoneValue]

\* The module is imported: nothing is cached, no request has come.
InitCacheVars ==
  /\ _EVENTS_DF = NoneValue
  /\ _LOAD_ERROR = NoneValue
  /\ threads = [t \in Threads |-> IdleThread]
  /\ requests = 0
  /\ loads = 0
  /\ returns = <<>>
  /\ responses = <<>>

NoCall == [fn |-> "none"]

NoDiagnostics ==
  [requested |-> 0, returned |-> 0, exact_available |-> 0,
   exact_returned |-> 0, flexible_returned |-> 0]

Init ==
  /\ df \in Tables
  /\ prefs \in Preferences
  /\ pc = "call"
  /\ target = 0
  /\ stages = <<>>
  /\ selected_rows = <<>>
  /\ exact_available = 0
  /\ stage_scored = <<>>
  /\ selected = <<>>
  /\ diagnostics = NoDiagnostics
  /\ prepared = <<>>
  /\ columns = Range(REQUIRED_COLUMNS)
  /\ scored_df = <<>>
  /\ error = <<>>
  /\ suggestions = <<>>
  /\ call = NoCall
  /\ result = 0
  /\ df_before = df
  /\ prefs_before = prefs
  /\ InitCacheVars

\* Entry of select_ranked_candidates_with_flexible_filters: the target and
\* the stage list.
Call ==
  /\ pc = "call"
  /\ target' = Target(prefs)
  /\ stages' = _build_flexible_filter_stages(prefs)
  /\ selected_rows' = <<>>
  /\ exact_available' = 0
  /\ pc' = "loop"
  /\ UNCHANGED <<df, prefs, stage_scored, selected, diagnostics, prepared>>
  /\ UNCHANGED <<columns, beforeVars, cacheVars, generateVars, callVars>>

\* One iteration of the loop that writes the stage's overrides into the
\* caller's preferences instead of into a copy.
RunStageInPlace ==
  /\ pc = "loop"
  /\ stages # <<>>
  /\ Len(selected_rows) < target
  /\ LET level == Head(stages).level
         scored == _apply_stage_specific_filters(
                     score_candidates(df, Head(stages).prefs), level, prefs)
     IN  /\ exact_available' =
              IF level = MATCH_LEVEL_EXACT THEN Len(scored) ELSE exact_available
         /\ selected_rows' = WalkRows(scored, selected_rows, level, target)
         /\ stage_scored' =
              Append(stage_scored, [level |-> level, scored |-> scored,
                                    prefs |-> Head(stages).prefs])
  /\ prepared' = _prepare_candidates(df)
  /\ stages' = Tail(stages)
  /\ prefs' = Head(stages).prefs
  /\ UNCHANGED <<df, pc, target, selected, diagnostics>>
  /\ UNCHANGED <<columns, beforeVars, cacheVars, generateVars, callVars>>

\* One iteration of the loop over the stages.
RunStage ==
  /\ pc = "loop"
  /\ stages # <<>>
  /\ Len(selected_rows) < target
  /\ LET level == Head(stages).level
         scored == _apply_stage_specific_filters(
                     score_candidates(df, Head(stages).prefs), level, prefs)
     IN  /\ exact_available' =
              IF level = MATCH_LEVEL_EXACT THEN Len(scored) ELSE exact_available
         /\ selected_rows' = WalkRows(scored, selected_rows, level, target)
         /\ stage_scored' =
              Append(stage_scored, [level |-> level, scored |-> scored,
                                    prefs |-> Head(stages).prefs])
  /\ prepared' = _prepare_candidates(df)
  /\ stages' = Tail(stages)
  /\ UNCHANGED <<df, prefs, pc, target, selected, diagnostics>>
  /\ UNCHANGED <<columns, beforeVars, cacheVars, generateVars, callVars>>

\* The diagnostics with a target of nothing.
EmptyDiagnosticsNoTarget(requested, available) ==
  [requested |-> 0, returned |-> 0, exact_available |-> available,
   exact_returned |-> 0, flexible_returned |-> 0]

\* The diagnostics returned when no row was selected.
EmptyDiagnostics(requested, available) ==
  [requested |-> requested, returned |-> 0, exact_available |-> available,
   exact_returned |-> 0, flexible_returned |-> 0]

\* After the loop: the empty result, or the final sort, the cut and the
\* diagnostics.
Return ==
  /\ pc = "loop"
  /\ stages = <<>> \/ Len(selected_rows) >= target
  /\ LET sorted == SortValues(selected_rows,
                     [i \in 1..Len(selected_rows) |-> SelectedSortKey(selected_rows[i])])
         final == Head_(sorted, target)
         exact_returned == CountLevel(final, MATCH_LEVEL_EXACT)
         returned == Len(final)
     IN  IF selected_rows = <<>>
         THEN /\ selected' = <<>>
              /\ diagnostics' = EmptyDiagnostics(target, exact_available)
         ELSE /\ selected' = final
              /\ diagnostics' =
                   [requested |-> target, returned |-> returned,
                    exact_available |-> exact_available,
                    exact_returned |-> exact_returned,
                    flexible_returned |-> returned - exact_returned]
  /\ pc' = "done"
  /\ UNCHANGED <<df, prefs, target, stages, selected_rows, exact_available,
                 stage_scored, prepared>>
  /\ UNCHANGED <<columns, beforeVars, cacheVars, generateVars, callVars>>

Next == Call \/ RunStage \/ Return

Spec == Init /\ [][Next]_vars

\* ------------------------------------------------- generate_suggestions

\* Column sets that lack a required column.
IncompleteColumns ==
  { Range(REQUIRED_COLUMNS) \ {"url"},
    Range(REQUIRED_COLUMNS) \ {"name", "price"},
    {"name", "title"} }

\* generate_suggestions is called on a table and a request: a table with all
\* the required columns, or a table of at most one row that lacks some.
InitGenerate ==
  /\ \/ df \in Tables /\ columns = Range(REQUIRED_COLUMNS)
     \/ /\ df \in TablesOfLength(0) \cup TablesOfLength(1)
        /\ columns \in IncompleteColumns
  /\ prefs \in Preferences
  /\ pc = "generate"
  /\ target = 0
  /\ stages = <<>>
  /\ selected_rows = <<>>
  /\ exact_available = 0
  /\ stage_scored = <<>>
  /\ selected = <<>>
  /\ diagnostics = NoDiagnostics
  /\ prepared = <<>>
  /\ scored_df = <<>>
  /\ error = <<>>
  /\ suggestions = <<>>
  /\ call = NoCall
  /\ result = 0
  /\ df_before = df
  /\ prefs_before = prefs
  /\ InitCacheVars

\* The first step of generate_suggestions falling back to the request with
\* its period relaxed when the exact filters leave nothing.
ScoreCandidatesWithFallback ==
  /\ pc = "generate"
  /\ IF PrepareRaises(df, columns)
     THEN /\ error' = MissingColumns(columns)
          /\ pc' = "raised"
          /\ UNCHANGED <<scored_df, prepared>>
     ELSE /\ scored_df' =
               IF score_candidates(df, prefs) # <<>> THEN score_candidates(df, prefs)
               ELSE score_candidates(df, [prefs EXCEPT !.preferred_period = "any"])
          /\ prepared' = _prepare_candidates(df)
          /\ pc' = "scored"
          /\ UNCHANGED error
  /\ UNCHANGED <<df, prefs, columns, beforeVars, cacheVars, target, stages, selected_rows,
                 exact_available, stage_scored, selected, diagnostics,
                 suggestions, callVars>>

\* scored = score_candidates(df, prefs), or the ValueError of
\* _prepare_candidates leaves generate_suggestions.
ScoreCandidates ==
  /\ pc = "generate"
  /\ IF PrepareRaises(df, columns)
     THEN /\ error' = MissingColumns(columns)
          /\ pc' = "raised"
          /\ UNCHANGED <<scored_df, prepared>>
     ELSE /\ scored_df' = score_candidates(df, prefs)
          /\ prepared' = _prepare_candidates(df)
          /\ pc' = "scored"
          /\ UNCHANGED error
  /\ UNCHANGED <<df, prefs, columns, beforeVars, cacheVars, target, stages, selected_rows,
                 exact_available, stage_scored, selected, diagnostics,
                 suggestions, callVars>>

\* return build_event_suggestions(scored, prefs)
BuildSuggestions ==
  /\ pc = "scored"
  /\ suggestions' = build_event_suggestions(scored_df, prefs)
  /\ pc' = "returned"
  /\ UNCHANGED <<df, prefs, columns, beforeVars, cacheVars, selectVars, scored_df, error, callVars>>

NextGenerate == ScoreCandidates \/ BuildSuggestions

SpecGenerate == InitGenerate /\ [][NextGenerate]_vars

\* ------------------------------------------------------------ helper calls

\* The money units a call of _budget_score is made in, as units per cent:
\* the cent, and 1e-10 dollars.
MoneyUnits == {1, 100000000}

\* Amounts around the steps of the price score: at, just below and just above
\* the budget, at and beyond an overage of a tenth and of a quarter.
CostInputs == {0, 5, 6, 10, 11, 12, 20, 22, 23, 25, 26, 100, 110, 125, 126}
BudgetInputs == {0 - 10, 0, 5, 10, 20, 100}

\* Timestamps of February 10, 2026 at the ends of the periods, and none.
TimestampInputs ==
  {NaT} \cup {[day |-> 10, hour |-> h] : h \in {0, 4, 5, 11, 12, 16, 17, 23}}

\* Period texts: the three periods, "any", other spellings, and no period.
PeriodTexts ==
  {"morning", "afternoon", "evening", "any", "Evening", "ANY", "Night", NoneValue}

\* No helper has been called.
InitCall ==
  /\ df = <<>>
  /\ columns = Range(REQUIRED_COLUMNS)
  /\ prefs = [budget |-> 0, preferred_period |-> "any", max_results |-> 5,
              min_price |-> 0, event_date |-> NoneValue,
              allow_flexible_dates |-> FALSE]
  /\ pc = "idle"
  /\ target = 0
  /\ stages = <<>>
  /\ selected_rows = <<>>
  /\ exact_available = 0
  /\ stage_scored = <<>>
  /\ selected = <<>>
  /\ diagnostics = NoDiagnostics
  /\ prepared = <<>>
  /\ scored_df = <<>>
  /\ error = <<>>
  /\ suggestions = <<>>
  /\ call = NoCall
  /\ result = 0
  /\ df_before = df
  /\ prefs_before = prefs
  /\ InitCacheVars

\* _budget_score(cost, budget): the result as a fraction.
BudgetScoreCall ==
  /\ pc = "idle"
  /\ \E per_cent \in MoneyUnits, cost \in CostInputs, budget \in BudgetInputs :
       /\ call' = [fn |-> "_budget_score", cost |-> cost, budget |-> budget,
                   per_cent |-> per_cent]
       /\ result' = [num |-> BudgetScoreIn(cost, budget, per_cent),
                     den |-> 10 * ScoreScaleIn(budget, per_cent)]
  /\ pc' = "called"
  /\ UNCHANGED <<df, prefs, columns, beforeVars, cacheVars, selectVars, generateVars>>

\* _time_score(timestamp, prefs): the result in hundredths.
TimeScoreCall ==
  /\ pc = "idle"
  /\ \E timestamp \in TimestampInputs, period \in PeriodTexts :
       /\ call' = [fn |-> "_time_score", timestamp |-> timestamp,
                   preferred_period |-> period]
       /\ result' = _time_score(timestamp, [prefs EXCEPT !.preferred_period = period])
  /\ pc' = "called"
  /\ UNCHANGED <<df, prefs, columns, beforeVars, cacheVars, selectVars, generateVars>>

\* A candidate row as the filters see it: its cost and its start time.
FilterRow(cost, timestamp) ==
  [name |-> "E", estimated_cost |-> cost, start_time |-> timestamp]

RECURSIVE TablesOver(_, _)
\* The tables of n rows drawn from a set of rows.
TablesOver(rows, n) ==
  IF n = 0 THEN {<<>>}
  ELSE {Append(t, r) : t \in TablesOver(rows, n - 1), r \in rows}

\* The tables of at most MaxFilterRows rows drawn from a set of rows.
FilterTables(rows) == UNION {TablesOver(rows, n) : n \in 0..MaxFilterRows}

\* filter_by_time_period(df, preferred_period)
PeriodFilterCall ==
  /\ pc = "idle"
  /\ \E table \in FilterTables({FilterRow(1000, t) : t \in TimestampInputs}),
        period \in PeriodTexts :
       /\ call' = [fn |-> "filter_by_time_period", df |-> table,
                   preferred_period |-> period]
       /\ result' = filter_by_time_period(table, period)
  /\ pc' = "called"
  /\ UNCHANGED <<df, prefs, columns, beforeVars, cacheVars, selectVars, generateVars>>

\* Costs at, just below and just above the two price bounds, and free.
PriceRowCosts == {0, 1999, 2000, 2001, 5000, 5001}
\* Price bounds: negative, zero, and the two positive ones.
PriceBounds == {0 - 100, 0, 2000, 5000}

\* filter_by_price(df, min_price, max_price)
PriceFilterCall ==
  /\ pc = "idle"
  /\ \E table \in FilterTables({FilterRow(c, NaT) : c \in PriceRowCosts}),
        min_price \in PriceBounds, max_price \in PriceBounds :
       /\ call' = [fn |-> "filter_by_price", df |-> table,
                   min_price |-> min_price, max_price |-> max_price]
       /\ result' = filter_by_price(table, min_price, max_price)
  /\ pc' = "called"
  /\ UNCHANGED <<df, prefs, columns, beforeVars, cacheVars, selectVars, generateVars>>

\* One of the three filters, with the arguments score_candidates gives it.
ApplyFilter(filter, table, p) ==
  CASE filter = "price" ->
         filter_by_price(table, Max(0, p.min_price), Max(0, p.budget))
    [] filter = "period" ->
         filter_by_time_period(table, _normalize_period(p.preferred_period))
    [] filter = "date" -> filter_by_event_date(table, p.event_date)

\* The three filters one after the other, in the given order.
ApplyFilters(order, table, p) ==
  ApplyFilter(order[3], ApplyFilter(order[2], ApplyFilter(order[1], table, p), p), p)

\* The six orders of the three filters.
FilterOrders ==
  {order \in [1..3 -> {"price", "period", "date"}] :
     \A i, j \in 1..3 : order[i] = order[j] => i = j}

\* Rows that each filter keeps or drops on its own.
OrderRows ==
  {FilterRow(c, t) :
     c \in {0, 3000, 9000},
     t \in {NaT, [day |-> 10, hour |-> 10], [day |-> 10, hour |-> 19],
            [day |-> 11, hour |-> 10]}}

\* Requests that switch each filter on or off.
OrderPreferences ==
  [budget : {0, 5000}, preferred_period : {"any", "morning"}, max_results : {5},
   min_price : {0, 1000}, event_date : {NoneValue, "2026-02-10"},
   allow_flexible_dates : {FALSE}]

\* The three filters applied to a candidate table in one of the six orders.
FilterOrderCall ==
  /\ pc = "idle"
  /\ \E table \in FilterTables(OrderRows), p \in OrderPreferences,
        order \in FilterOrders :
       /\ call' = [fn |-> "filters", df |-> table, prefs |-> p, order |-> order]
       /\ result' = ApplyFilters(order, table, p)
  /\ pc' = "called"
  /\ UNCHANGED <<df, prefs, columns, beforeVars, cacheVars, selectVars, generateVars>>

\* The pieces the enumerated price texts are made of.
PriceTokens ==
  {Num(1000), Num(2000), Word(" "), Word("to"), Word("-"), Word("Free"),
   Word("N/A")}

\* A text never has two numbers with nothing between them: they would be
\* one number.
WellFormed(tokens) ==
  \A i \in 1..(Len(tokens) - 1) : ~(IsNumber(tokens[i]) /\ IsNumber(tokens[i + 1]))

\* "$10 - $20", "$10 to $20", "$42.50", "$10-$20", "$10 TO $20", "n/a",
\* "FREE", "$10.01 - $20.02", "$10 $20 at the door", " $10 ", "from $10 to $20",
\* "10 20 to", "to 10 20", "10to20 to".
PriceExamples ==
  { <<Word("$"), Num(1000), Word(" "), Word("-"), Word(" "), Word("$"), Num(2000)>>,
    <<Word("$"), Num(1000), Word(" "), Word("to"), Word(" "), Word("$"), Num(2000)>>,
    <<Word("$"), Num(4250)>>,
    <<Word("$"), Num(1000), Word("-"), Word("$"), Num(2000)>>,
    <<Word("$"), Num(1000), Word(" "), Word("TO"), Word(" "), Word("$"), Num(2000)>>,
    <<Word("n/a")>>,
    <<Word("FREE")>>,
    <<Word("$"), Num(1001), Word(" "), Word("-"), Word(" "), Word("$"), Num(2002)>>,
    <<Word("$"), Num(1000), Word(" "), Word("$"), Num(2000), Word(" "),
      Word("at the door")>>,
    <<Word(" "), Word("$"), Num(1000), Word(" ")>>,
    <<Word("from"), Word(" "), Word("$"), Num(1000), Word(" "), Word("to"),
      Word(" "), Word("$"), Num(2000)>>,
    <<Num(1000), Word(" "), Num(2000), Word(" "), Word("to")>>,
    <<Word("to"), Word(" "), Num(1000), Word(" "), Num(2000)>>,
    <<Num(1000), Word("to"), Num(2000), Word(" "), Word("to")>> }

\* The price texts: the examples, and every well-formed text of at most
\* MaxPriceTokens pieces.
PriceTexts ==
  PriceExamples \cup
    {t \in UNION {TablesOver(PriceTokens, n) : n \in 0..MaxPriceTokens} :
       WellFormed(t)}

\* _parse_price_text(value)
ParsePriceCall ==
  /\ pc = "idle"
  /\ \E value \in PriceTexts :
       /\ call' = [fn |-> "_parse_price_text", value |-> value]
       /\ result' = _parse_price_text(value)
  /\ pc' = "called"
  /\ UNCHANGED <<df, prefs, columns, beforeVars, cacheVars, selectVars, generateVars>>

NextCall ==
  \/ ParsePriceCall
  \/ BudgetScoreCall
  \/ TimeScoreCall
  \/ PeriodFilterCall
  \/ PriceFilterCall
  \/ FilterOrderCall

SpecCall == InitCall /\ [][NextCall]_vars

\* ------------------------------------------------------------ dataset cache

\* What a call of load_events_df may do: return a dataset (the file may have
\* changed between two calls), or raise.
LoadOutcomes ==
  {[ok |-> TRUE, value |-> d] : d \in {"events of Monday", "events of Tuesday"}}
    \cup {[ok |-> FALSE, value |-> "Latest processed dataset not found"]}

\* The routes that call get_cached_df.
Routes == {"web_menu", "wizard_generate"}

\* The web process starts with an empty cache; the other variables rest.
InitCache ==
  /\ df = <<>>
  /\ columns = Range(REQUIRED_COLUMNS)
  /\ prefs = [budget |-> 0, preferred_period |-> "any", max_results |-> 5,
              min_price |-> 0, event_date |-> NoneValue,
              allow_flexible_dates |-> FALSE]
  /\ pc = "serving"
  /\ target = 0
  /\ stages = <<>>
  /\ selected_rows = <<>>
  /\ exact_available = 0
  /\ stage_scored = <<>>
  /\ selected = <<>>
  /\ diagnostics = NoDiagnostics
  /\ prepared = <<>>
  /\ scored_df = <<>>
  /\ error = <<>>
  /\ suggestions = <<>>
  /\ call = NoCall
  /\ result = 0
  /\ df_before = df
  /\ prefs_before = prefs
  /\ InitCacheVars

\* What no step of a request thread touches.
CacheFrame ==
  UNCHANGED <<df, prefs, pc, columns, selectVars, generateVars, callVars, beforeVars>>

\* The server hands a request for one of the routes to an idle thread.
Request(t) ==
  /\ pc = "serving"
  /\ threads[t].at = "idle"
  /\ requests < MaxRequests
  /\ \E route \in Routes :
       threads' = [threads EXCEPT ![t] = [IdleThread EXCEPT !.at = "check", !.route = route]]
  /\ requests' = requests + 1
  /\ UNCHANGED <<_EVENTS_DF, _LOAD_ERROR, loads, returns, responses>>
  /\ CacheFrame

\* if _EVENTS_DF is not None or _LOAD_ERROR is not None
CheckCache(t) ==
  /\ threads[t].at = "check"
  /\ threads' = [threads EXCEPT ![t].at =
                   IF _EVENTS_DF # NoneValue \/ _LOAD_ERROR # NoneValue
                   THEN "return" ELSE "load"]
  /\ UNCHANGED <<_EVENTS_DF, _LOAD_ERROR, requests, loads, returns, responses>>
  /\ CacheFrame

\* The call load_events_df() returns or raises.
LoadEvents(t) ==
  /\ threads[t].at = "load"
  /\ \E outcome \in LoadOutcomes :
       threads' = [threads EXCEPT ![t].loaded = outcome.value,
                                  ![t].at = IF outcome.ok THEN "store" ELSE "except"]
  /\ loads' = loads + 1
  /\ UNCHANGED <<_EVENTS_DF, _LOAD_ERROR, requests, returns, responses>>
  /\ CacheFrame

\* _EVENTS_DF = load_events_df()
StoreDataset(t) ==
  /\ threads[t].at = "store"
  /\ _EVENTS_DF' = threads[t].loaded
  /\ threads' = [threads EXCEPT ![t].at = "clear_error"]
  /\ UNCHANGED <<_LOAD_ERROR, requests, loads, returns, responses>>
  /\ CacheFrame

\* _LOAD_ERROR = None
ClearError(t) ==
  /\ threads[t].at = "clear_error"
  /\ _LOAD_ERROR' = NoneValue
  /\ threads' = [threads EXCEPT ![t].at = "return"]
  /\ UNCHANGED <<_EVENTS_DF, requests, loads, returns, responses>>
  /\ CacheFrame

\* except Exception: _EVENTS_DF = None
DropDataset(t) ==
  /\ threads[t].at = "except"
  /\ _EVENTS_DF' = NoneValue
  /\ threads' = [threads EXCEPT ![t].at = "record_error"]
  /\ UNCHANGED <<_LOAD_ERROR, requests, loads, returns, responses>>
  /\ CacheFrame

\* _LOAD_ERROR = str(exc)
RecordError(t) ==
  /\ threads[t].at = "record_error"
  /\ _LOAD_ERROR' = threads[t].loaded
  /\ threads' = [threads EXCEPT ![t].at = "return"]
  /\ UNCHANGED <<_EVENTS_DF, requests, loads, returns, responses>>
  /\ CacheFrame

\* return _EVENTS_DF
ReturnCached(t) ==
  /\ threads[t].at = "return"
  /\ threads' = [threads EXCEPT ![t].df = _EVENTS_DF, ![t].at = "respond"]
  /\ returns' = Append(returns, _EVENTS_DF)
  /\ UNCHANGED <<_EVENTS_DF, _LOAD_ERROR, requests, loads, responses>>
  /\ CacheFrame

\* The rest of the route: web_menu renders the menu, with the load error
\* when one is recorded; wizard_generate redirects to the menu with the load
\* error when it got no dataset, and else goes on to generate.
Respond(t) ==
  /\ threads[t].at = "respond"
  /\ responses' =
       Append(responses,
              IF threads[t].route = "web_menu"
              THEN [route |-> "web_menu", to |-> "menu", message |-> _LOAD_ERROR]
              ELSE IF threads[t].df = NoneValue
              THEN [route |-> "wizard_generate", to |-> "menu",
                    message |-> _LOAD_ERROR]
              ELSE [route |-> "wizard_generate", to |-> "generate",
                    message |-> NoneValue])
  /\ threads' = [threads EXCEPT ![t] = IdleThread]
  /\ UNCHANGED <<_EVENTS_DF, _LOAD_ERROR, requests, loads, returns>>
  /\ CacheFrame

\* A step of a request thread inside get_cached_df or its route.
Serve(t) ==
  \/ CheckCache(t)
  \/ LoadEvents(t)
  \/ StoreDataset(t)
  \/ ClearError(t)
  \/ DropDataset(t)
  \/ RecordError(t)
  \/ ReturnCached(t)
  \/ Respond(t)

\* The threaded server: requests are handled as they come, side by side.
NextCache == \E t \in Threads : Request(t) \/ Serve(t)

SpecCache == InitCache /\ [][NextCache]_vars

\* No thread handles a request.
AllIdle == \A t \in Threads : threads[t].at = "idle"

\* The same server when every request ends before the next one begins.
NextCacheOneByOne == \E t \in Threads : (AllIdle /\ Request(t)) \/ Serve(t)

SpecCacheOneByOne == InitCache /\ [][NextCacheOneByOne]_vars

\* ------------------------------------------------------------------ claims

Done == pc = "done"

Priority(row) == MATCH_LEVEL_PRIORITY(row._match_level)

DateFlexible(row) ==
  row._match_level \in {MATCH_LEVEL_FLEXIBLE_DATE, MATCH_LEVEL_FLEXIBLE_PERIOD_AND_DATE}

\* The requested day when the request names a parseable date, else NaN.
RequestedDay == _normalize_event_date(prefs.event_date)

\* C1: in the returned table the match priority is non-decreasing down the
\* rows: no row of a worse match level precedes a row of a better one.
C1_PriorityNonDecreasing ==
  Done => \A i, j \in 1..Len(selected) :
            i < j => Priority(selected[i]) <= Priority(selected[j])

\* C1 witness: a returned row of a worse level follows a row of a better
\* level although its overall_score is higher.
C1_Witness ==
  /\ Done
  /\ \E i, j \in 1..Len(selected) :
       /\ i < j
       /\ Priority(selected[i]) < Priority(selected[j])
       /\ selected[j].overall_score > selected[i].overall_score

\* C2: when allow_flexible_dates is false and event_date is a parseable
\* date, every returned row has its start_time on exactly that date.
C2_DateNeverRelaxedWithoutFlag ==
  (Done /\ ~prefs.allow_flexible_dates /\ RequestedDay # NaN)
    => \A i \in 1..Len(selected) :
         selected[i].start_time # NaT /\ selected[i].start_time.day = RequestedDay

\* C2 witness: without the flag, a period and a date are requested, no
\* candidate is on the date, the period-relaxed stage has run, candidates
\* within the budget exist on other dates, and the result is empty.
C2_Witness ==
  /\ Done
  /\ ~prefs.allow_flexible_dates
  /\ RequestedDay # NaN
  /\ Len(stage_scored) = 2
  /\ \E i \in 1..Len(prepared) :
       /\ prepared[i].start_time # NaT
       /\ prepared[i].start_time.day # RequestedDay
       /\ prepared[i].estimated_cost <= prefs.budget
  /\ selected = <<>>

\* C3: the returned table has at most max(1, max_results) rows, and the
\* diagnostics report its length as 'returned' and max(1, max_results) as
\* 'requested'.
C3_AtMostTargetRows ==
  Done => /\ Len(selected) <= (IF prefs.max_results > 1 THEN prefs.max_results ELSE 1)
          /\ diagnostics.returned = Len(selected)
          /\ diagnostics.requested = (IF prefs.max_results > 1 THEN prefs.max_results ELSE 1)

\* C3 witness: max_results is 0, the EXACT stage offers more than one
\* candidate, and exactly one row is returned.
C3_Witness ==
  /\ Done
  /\ prefs.max_results = 0
  /\ Len(stage_scored[1].scored) > 1
  /\ Len(selected) = 1
  /\ diagnostics.requested = 1

\* The identity keys of the rows of a table.
Identities(table) == {_candidate_identity(table[i]) : i \in 1..Len(table)}

\* C4: a row of match level L is returned only if every candidate of every
\* earlier stage is returned too (by its identity); and when the EXACT stage
\* yields at least max(1, max_results) distinct candidates, no flexible
\* stage is evaluated and every returned row is EXACT.
C4_EarlierStagesExhaustedFirst ==
  Done =>
    /\ \A i \in 1..Len(selected) : \A k \in 1..Len(stage_scored) :
         MATCH_LEVEL_PRIORITY(stage_scored[k].level) < Priority(selected[i])
           => Identities(stage_scored[k].scored) \subseteq Identities(selected)
    /\ (Cardinality(Identities(stage_scored[1].scored)) >= target)
         => /\ Len(stage_scored) = 1
            /\ \A i \in 1..Len(selected) : selected[i]._match_level = MATCH_LEVEL_EXACT

\* C4 witness: a flexible row is returned after an EXACT stage that had
\* candidates, all of them returned.
C4_Witness ==
  /\ Done
  /\ stage_scored[1].scored # <<>>
  /\ \E i \in 1..Len(selected) : Priority(selected[i]) > 0
  /\ \E i \in 1..Len(selected) : Priority(selected[i]) = 0

\* C5: no two returned rows share an identity key.
C5_NoSharedIdentity ==
  Done => \A i, j \in 1..Len(selected) :
            i < j => _candidate_identity(selected[i]) # _candidate_identity(selected[j])

\* C5 witness: a candidate selected by one stage was offered again by a later
\* stage that selected another row.
C5_Witness ==
  /\ Done
  /\ \E i, j \in 1..Len(selected) : \E k \in 1..Len(stage_scored) :
       /\ Priority(selected[i]) < MATCH_LEVEL_PRIORITY(stage_scored[k].level)
       /\ _candidate_identity(selected[i]) \in Identities(stage_scored[k].scored)
       /\ selected[j]._match_level = stage_scored[k].level

\* C6: every row returned at FLEXIBLE_DATE or FLEXIBLE_PERIOD_AND_DATE has a
\* present start_time at most 3 days from the requested date.
C6_DateFlexibleWithinWindow ==
  Done => \A i \in 1..Len(selected) :
            DateFlexible(selected[i])
              => /\ selected[i].start_time # NaT
                 /\ selected[i].start_time.day - RequestedDay <= 3
                 /\ RequestedDay - selected[i].start_time.day <= 3

\* C6 witness: a row exactly 3 days off is returned at a date-flexible level
\* from a table that also holds a candidate with no start_time or more than
\* 3 days off.
C6_Witness ==
  /\ Done
  /\ \E i \in 1..Len(selected) :
       DateFlexible(selected[i]) /\ selected[i].start_time.day = RequestedDay + 3
  /\ \E i \in 1..Len(prepared) :
       \/ prepared[i].start_time = NaT
       \/ prepared[i].start_time.day > RequestedDay + 3

\* The stage list as _build_flexible_filter_stages returned it: the state
\* right after the call, before any stage has run.
StagesBuilt == pc = "loop" /\ stage_scored = <<>>

PeriodRequested == Lower(prefs.preferred_period) \in {"morning", "afternoon", "evening"}

DateRequested == prefs.event_date # NoneValue /\ ParseDate(prefs.event_date) # NaN

\* Whether the stage of a level belongs to the list, in the claim's words.
StageWanted(level) ==
  CASE level = MATCH_LEVEL_EXACT -> TRUE
    [] level = MATCH_LEVEL_FLEXIBLE_PERIOD -> PeriodRequested
    [] level = MATCH_LEVEL_FLEXIBLE_DATE -> DateRequested /\ prefs.allow_flexible_dates
    [] level = MATCH_LEVEL_FLEXIBLE_PERIOD_AND_DATE ->
         PeriodRequested /\ DateRequested /\ prefs.allow_flexible_dates

\* The preferences of the stage of a level, in the claim's words.
StageVariant(level) ==
  [budget |-> prefs.budget,
   min_price |-> prefs.min_price,
   max_results |-> prefs.max_results,
   allow_flexible_dates |-> prefs.allow_flexible_dates,
   preferred_period |->
     IF level \in {MATCH_LEVEL_FLEXIBLE_PERIOD, MATCH_LEVEL_FLEXIBLE_PERIOD_AND_DATE}
     THEN "any" ELSE prefs.preferred_period,
   event_date |->
     IF level \in {MATCH_LEVEL_FLEXIBLE_DATE, MATCH_LEVEL_FLEXIBLE_PERIOD_AND_DATE}
     THEN NoneValue ELSE prefs.event_date]

\* C7: the stage list holds, in the order EXACT, FLEXIBLE_PERIOD,
\* FLEXIBLE_DATE, FLEXIBLE_PERIOD_AND_DATE, exactly the stages whose
\* condition holds, each with its variant of the preferences.
C7_StageList ==
  StagesBuilt =>
    /\ [i \in 1..Len(stages) |-> stages[i].level]
         = SelectSeq(<<MATCH_LEVEL_EXACT, MATCH_LEVEL_FLEXIBLE_PERIOD,
                       MATCH_LEVEL_FLEXIBLE_DATE, MATCH_LEVEL_FLEXIBLE_PERIOD_AND_DATE>>,
                     StageWanted)
    /\ \A i \in 1..Len(stages) : stages[i].prefs = StageVariant(stages[i].level)

\* C7 witness: a period and a parseable date with the flag give all four
\* stages.
C7_Witness ==
  /\ StagesBuilt
  /\ Len(stages) = 4
  /\ PeriodRequested /\ DateRequested /\ prefs.allow_flexible_dates

ScenarioPrefs(allow) ==
  [budget |-> 5000, min_price |-> 0, preferred_period |-> "morning",
   event_date |-> NoneValue, max_results |-> 2, allow_flexible_dates |-> allow]

Scenario ==
  /\ df = <<RowA, RowB, RowC>>
  /\ prefs \in {ScenarioPrefs(TRUE), ScenarioPrefs(FALSE)}

\* C8: for the dataset A ($20, 10:00), B ($90, 14:00), C ($30, 19:00) of
\* 2026-02-10 and budget 50, period morning, no date, max_results 2, the
\* result is A tagged EXACT then C tagged FLEXIBLE_PERIOD, and no stage
\* offers B.
C8_Scenario ==
  (Scenario /\ Done) =>
    /\ [i \in 1..Len(selected) |-> <<selected[i].name, selected[i]._match_level>>]
         = << <<"A", MATCH_LEVEL_EXACT>>, <<"C", MATCH_LEVEL_FLEXIBLE_PERIOD>> >>
    /\ \A k \in 1..Len(stage_scored) : \A i \in 1..Len(stage_scored[k].scored) :
         stage_scored[k].scored[i].name # "B"

\* C8 witness: the scenario has run to its end, through both stages.
C8_Witness == Scenario /\ Done /\ Len(stage_scored) = 2

\* Whether row a may precede row b in the normal scoring order.
ScoreOrdered(a, b) ==
  \/ a.overall_score > b.overall_score
  \/ a.overall_score = b.overall_score /\ a.time_score >= b.time_score

\* The date distance the final sort uses: 0 where none was computed.
DistanceSort(row) ==
  IF row._date_distance_days = NaN THEN 0 ELSE row._date_distance_days

\* C9 as claimed: any two returned rows of the same match level are in
\* scoring order, the higher overall_score first.
C9_ScoreOrderWithinLevel ==
  Done => \A i, j \in 1..Len(selected) :
            (i < j /\ selected[i]._match_level = selected[j]._match_level)
              => ScoreOrdered(selected[i], selected[j])

\* C9 amended: any two returned rows of the same match level are ordered by
\* date distance first, the nearer first, and rows of the same match level
\* and the same date distance are in scoring order; at EXACT and
\* FLEXIBLE_PERIOD every row has date distance 0.
C9_ScoreOrderWithinLevelAndDistance ==
  Done => \A i, j \in 1..Len(selected) :
            (i < j /\ selected[i]._match_level = selected[j]._match_level)
              => /\ DistanceSort(selected[i]) <= DistanceSort(selected[j])
                 /\ DistanceSort(selected[i]) = DistanceSort(selected[j])
                      => ScoreOrdered(selected[i], selected[j])
                 /\ ~DateFlexible(selected[i]) => DistanceSort(selected[i]) = 0

\* C9 witness: two returned rows of one level and one date distance, the
\* first with the higher overall score, from a stage that scored it first.
C9_Witness ==
  /\ Done
  /\ \E i, j \in 1..Len(selected) :
       /\ i < j
       /\ selected[i]._match_level = selected[j]._match_level
       /\ DistanceSort(selected[i]) = DistanceSort(selected[j])
       /\ selected[i].overall_score > selected[j].overall_score

\* C10 as claimed: of the rows that agree in (source, name, date, time,
\* location) up to letter case, the candidate table keeps the first alone,
\* and so does every scored table.
C10_CaseInsensitiveDedup ==
  /\ \A i, j \in 1..Len(prepared) :
       i < j => _candidate_identity(prepared[i]) # _candidate_identity(prepared[j])
  /\ \A k \in 1..Len(stage_scored) : \A i, j \in 1..Len(stage_scored[k].scored) :
       i < j => _candidate_identity(stage_scored[k].scored[i])
                  # _candidate_identity(stage_scored[k].scored[j])

\* C11: a table that lacks a required column makes score_candidates fail with
\* an error naming the missing columns and return nothing, whatever its number
\* of rows, zero included.
C11_MissingColumnsRaise ==
  (pc # "generate" /\ MissingColumns(columns) # <<>>)
    => (pc = "raised" /\ error = MissingColumns(columns))

\* A table with rows that lacks a column does raise, naming the columns.
C11_RaisesWithRows ==
  (pc # "generate" /\ MissingColumns(columns) # <<>> /\ df # <<>>)
    => (pc = "raised" /\ error = MissingColumns(columns))

\* Every stage that ran found no row.
NoCandidateSurvives ==
  \A i \in 1..Len(stage_scored) : stage_scored[i].scored = <<>>

\* C12: when no candidate survives any relaxation stage, the orchestrator
\* returns (after trying every stage) an empty table and diagnostics with
\* returned, exact_returned and flexible_returned all 0 and requested equal to
\* max(1, max_results).
C12_EmptyResultDiagnostics ==
  (Done /\ NoCandidateSurvives)
    => /\ Len(stage_scored) = Len(_build_flexible_filter_stages(prefs))
       /\ selected = <<>>
       /\ diagnostics.returned = 0
       /\ diagnostics.exact_returned = 0
       /\ diagnostics.flexible_returned = 0
       /\ diagnostics.requested = Max(1, prefs.max_results)

\* A table with rows of which none survives any of several stages.
C12_Witness ==
  /\ Done
  /\ NoCandidateSurvives
  /\ Len(stage_scored) >= 2
  /\ prepared # <<>>
  /\ selected = <<>>
  /\ diagnostics.returned = 0

\* score_candidates has returned to generate_suggestions.
ScoredReturned == pc \in {"scored", "returned"}

\* The same listing: the scored row carries the columns of the candidate row.
SameListing(a, r) ==
  /\ a.name = r.name /\ a.date = r.date /\ a.time = r.time
  /\ a.location = r.location /\ a.source = r.source

\* The position of a scored row in the deduplicated candidate table.
InputPosition(a) ==
  CHOOSE k \in 1..Len(prepared) : SameListing(a, prepared[k])

\* Equal sort keys of score_candidates.
ScoreTie(a, b) ==
  a.overall_score = b.overall_score /\ a.time_score = b.time_score

\* C13: the table score_candidates returns is sorted by overall_score
\* descending, ties by time_score descending, and rows equal in both keep the
\* relative order they had in the deduplicated candidate table.
C13_SortedAndStable ==
  ScoredReturned =>
    \A i, j \in 1..Len(scored_df) :
      i < j =>
        LET a == scored_df[i]
            b == scored_df[j]
        IN  \/ a.overall_score > b.overall_score
            \/ a.overall_score = b.overall_score /\ a.time_score > b.time_score
            \/ ScoreTie(a, b) /\ InputPosition(a) < InputPosition(b)

\* A returned table with a tie and with a pair the sort has swapped.
C13_Witness ==
  /\ ScoredReturned
  /\ \E i, j \in 1..Len(scored_df) :
       i < j /\ ScoreTie(scored_df[i], scored_df[j])
  /\ \E i, j \in 1..Len(scored_df) :
       /\ i < j
       /\ scored_df[i].overall_score > scored_df[j].overall_score
       /\ InputPosition(scored_df[i]) > InputPosition(scored_df[j])

\* generate_suggestions has returned the result of build_event_suggestions.
SuggestionsReturned == pc = "returned"

\* The stop describes the row's event.
StopOfRow(stop, row) ==
  /\ stop.name = row.name /\ stop.location = row.location
  /\ stop.source = row.source /\ stop.url = row.url
  /\ stop.estimated_cost = row.estimated_cost

\* C14: build_event_suggestions returns the empty list for an empty table;
\* for a table of N rows and max_results >= N it returns N suggestions, the
\* k-th one built from the k-th row, named "Event Suggestion #k" and holding
\* exactly one stop.
C14_OneSuggestionPerRow ==
  SuggestionsReturned =>
    /\ scored_df = <<>> => suggestions = <<>>
    /\ prefs.max_results >= Len(scored_df) =>
         /\ Len(suggestions) = Len(scored_df)
         /\ \A k \in 1..Len(suggestions) :
              /\ suggestions[k].plan_name = <<"Event Suggestion #", k>>
              /\ Len(suggestions[k].stops) = 1
              /\ StopOfRow(suggestions[k].stops[1], scored_df[k])

\* Two scored rows and a request for two results.
C14_Witness ==
  /\ SuggestionsReturned
  /\ Len(scored_df) = 2
  /\ prefs.max_results = 2
  /\ Len(suggestions) = 2
  /\ suggestions[1].stops[1].name # suggestions[2].stops[1].name

\* The empty table gives the empty list.
C14_WitnessEmpty ==
  SuggestionsReturned /\ df # <<>> /\ scored_df = <<>> /\ suggestions = <<>>

\* The price score the specification gives, as a fraction.
SpecifiedPriceScore(cost, budget) ==
  IF budget <= 0 THEN [num |-> 7, den |-> 10]
  ELSE IF cost <= budget
       THEN [num |-> Max(4 * budget, 10 * budget - 6 * cost), den |-> 10 * budget]
  ELSE IF 10 * (cost - budget) <= budget THEN [num |-> 2, den |-> 10]
  ELSE IF 4 * (cost - budget) <= budget THEN [num |-> 1, den |-> 10]
  ELSE [num |-> 0, den |-> 10]

\* Equal fractions of positive denominators.
SameFraction(a, b) == a.num * b.den = b.num * a.den

\* C15: for every cost >= 0 and every budget, _budget_score returns the
\* piecewise function: 0.7 when budget <= 0; max(0.4, 1 - 0.6*cost/budget)
\* when cost <= budget; for cost > budget 0.2 when the overage is at most a
\* tenth of the budget, 0.1 when at most a quarter, else 0; always in [0, 1].
C15_PiecewisePriceScore ==
  call.fn = "_budget_score" =>
    /\ SameFraction(result, SpecifiedPriceScore(call.cost, call.budget))
    /\ 0 <= result.num /\ result.num <= result.den

\* The price score is the piecewise function for every budget that is not
\* strictly between 0 and 1e-9, and lies in [0, 1] for every budget.
C15_PiecewiseFromTheFloor ==
  call.fn = "_budget_score" =>
    /\ (call.budget <= 0 \/ call.budget >= BudgetFloor(call.per_cent))
         => SameFraction(result, SpecifiedPriceScore(call.cost, call.budget))
    /\ 0 <= result.num /\ result.num <= result.den

\* The position of a period in the order morning < afternoon < evening.
PeriodPosition(period) ==
  CASE period = "morning" -> 1 [] period = "afternoon" -> 2 [] period = "evening" -> 3

\* The period of an hour: 5..11 morning, 12..16 afternoon, else evening.
PeriodOfHour(h) ==
  IF h \in 5..11 THEN "morning" ELSE IF h \in 12..16 THEN "afternoon" ELSE "evening"

\* The period a text asks for, whatever its case, or "any" for any other text.
RequestedPeriod(text) ==
  IF text \in {"morning", "Morning"} THEN "morning"
  ELSE IF text = "afternoon" THEN "afternoon"
  ELSE IF text \in {"evening", "Evening"} THEN "evening"
  ELSE "any"

\* C16: _time_score is 1.0 when the preferred period is "any", whatever the
\* start time; otherwise 0.2 when the start time is absent; otherwise 1.0,
\* 0.55 or 0.25 as the event's period is 0, 1 or 2 places from the preferred
\* one in the order morning < afternoon < evening.
C16_TimeScoreByDistance ==
  call.fn = "_time_score" =>
    LET wanted == RequestedPeriod(call.preferred_period)
    IN  IF wanted = "any" THEN result = 100
        ELSE IF call.timestamp = NaT THEN result = 20
        ELSE LET distance == Abs(PeriodPosition(PeriodOfHour(call.timestamp.hour))
                                   - PeriodPosition(wanted))
             IN  result = CASE distance = 0 -> 100
                            [] distance = 1 -> 55
                            [] distance = 2 -> 25

\* A morning event scored for an evening request: distance 2.
C16_Witness ==
  /\ call.fn = "_time_score"
  /\ call.preferred_period = "Evening"
  /\ call.timestamp # NaT
  /\ call.timestamp.hour = 11
  /\ result = 25

\* C17: filter_by_time_period returns every row when the preferred period is
\* "any" or no period at all; for a period it keeps, in order, exactly the
\* rows with a start time whose hour is in that period (5..11 morning, 12..16
\* afternoon, 17..23 and 0..4 evening), so never a row without start time.
C17_PeriodFilter ==
  call.fn = "filter_by_time_period" =>
    LET wanted == RequestedPeriod(call.preferred_period)
    IN  result =
          IF wanted = "any" THEN call.df
          ELSE SelectSeq(call.df, LAMBDA row :
                 /\ row.start_time # NaT
                 /\ PeriodOfHour(row.start_time.hour) = wanted)

\* An evening request on a row at 4:00 and a row without start time.
C17_Witness ==
  /\ call.fn = "filter_by_time_period"
  /\ call.preferred_period = "evening"
  /\ call.df = <<FilterRow(1000, NaT), FilterRow(1000, [day |-> 10, hour |-> 4])>>
  /\ result = <<FilterRow(1000, [day |-> 10, hour |-> 4])>>

\* C18: filter_by_price returns the table unchanged when min_price <= 0 and
\* max_price <= 0; otherwise it keeps, in order, exactly the rows whose cost
\* is >= min_price (when min_price > 0) and <= max_price (when
\* max_price > 0), both bounds inclusive.
C18_PriceFilter ==
  call.fn = "filter_by_price" =>
    result =
      IF call.min_price <= 0 /\ call.max_price <= 0 THEN call.df
      ELSE SelectSeq(call.df, LAMBDA row :
             /\ call.min_price > 0 => row.estimated_cost >= call.min_price
             /\ call.max_price > 0 => row.estimated_cost <= call.max_price)

\* Both bounds set, a row on the upper bound kept and a row above it dropped.
C18_Witness ==
  /\ call.fn = "filter_by_price"
  /\ call.min_price = 2000
  /\ call.max_price = 5000
  /\ call.df = <<FilterRow(5001, NaT), FilterRow(5000, NaT)>>
  /\ result = <<FilterRow(5000, NaT)>>

\* C19: for every candidate table and request, the three filters applied in
\* any of the six orders give the same rows in the same order as price, then
\* period, then date.
C19_FilterOrderInsensitive ==
  call.fn = "filters" =>
    result = ApplyFilters(<<"price", "period", "date">>, call.df, call.prefs)

\* Date first, price last, all three filters active, and each dropping a row
\* that the other two would keep or the result keeping a row.
C19_Witness ==
  /\ call.fn = "filters"
  /\ call.order = <<"date", "period", "price">>
  /\ call.prefs.budget > 0
  /\ call.prefs.preferred_period = "morning"
  /\ call.prefs.event_date # NoneValue
  /\ Len(call.df) = 2
  /\ Len(result) = 1

\* The preferences of the stage of a level for a request: a copy with the
\* period, the date or both overridden.
DerivedCopy(p, level) ==
  [p EXCEPT
     !.preferred_period =
       IF level \in {MATCH_LEVEL_FLEXIBLE_PERIOD,
                     MATCH_LEVEL_FLEXIBLE_PERIOD_AND_DATE}
       THEN "any" ELSE @,
     !.event_date =
       IF level \in {MATCH_LEVEL_FLEXIBLE_DATE,
                     MATCH_LEVEL_FLEXIBLE_PERIOD_AND_DATE}
       THEN NoneValue ELSE @]

\* Every stage that ran was given a derived copy of the preferences the
\* caller passed, and the candidate table of the last one is the one of the
\* table the caller passed.
StagesSeeTheInputs ==
  /\ \A i \in 1..Len(stage_scored) :
       stage_scored[i].prefs = DerivedCopy(prefs_before, stage_scored[i].level)
  /\ stage_scored # <<>> => prepared = _prepare_candidates(df_before)

\* C20: at every point of a call of the orchestrator (after its stage
\* building, after each stage's call of score_candidates and of the filters,
\* after the final sort) the caller's table and the caller's preferences are
\* what they were when the call began, and every stage has been evaluated on
\* the full candidate table of that table with a derived copy of those
\* preferences.
C20_InputsNeverMutated ==
  /\ df = df_before
  /\ prefs = prefs_before
  /\ StagesSeeTheInputs

\* A call that ran three stages, two of them with overridden preferences,
\* and returned rows.
C20_Witness ==
  /\ Done
  /\ Len(stage_scored) >= 3
  /\ stage_scored[3].level = MATCH_LEVEL_FLEXIBLE_DATE
  /\ prefs.event_date # NoneValue
  /\ df # <<>>
  /\ selected # <<>>

\* Row a is not after row b in the order (match priority ascending, date
\* distance ascending, overall_score descending, time_score descending).
FinalOrdered(a, b) ==
  \/ Priority(a) < Priority(b)
  \/ /\ Priority(a) = Priority(b)
     /\ \/ DistanceSort(a) < DistanceSort(b)
        \/ /\ DistanceSort(a) = DistanceSort(b)
           /\ \/ a.overall_score > b.overall_score
              \/ /\ a.overall_score = b.overall_score
                 /\ a.time_score >= b.time_score

\* C21: the returned table is ordered lexicographically by match priority
\* ascending, date distance ascending (0 for a row of a stage that is not
\* date-flexible), overall_score descending, time_score descending; so within
\* a date-flexible level a nearer row precedes a farther one of higher score.
C21_FinalOrder ==
  Done =>
    /\ \A i, j \in 1..Len(selected) : i < j => FinalOrdered(selected[i], selected[j])
    /\ \A i \in 1..Len(selected) :
         ~DateFlexible(selected[i]) => DistanceSort(selected[i]) = 0

\* Two returned rows of one date-flexible level, the nearer one first although
\* the farther one has the higher overall score.
C21_Witness ==
  /\ Done
  /\ \E i, j \in 1..Len(selected) :
       /\ i < j
       /\ DateFlexible(selected[i])
       /\ selected[i]._match_level = selected[j]._match_level
       /\ DistanceSort(selected[i]) < DistanceSort(selected[j])
       /\ selected[i].overall_score < selected[j].overall_score

\* The text of a call of the price parser, without leading and trailing blanks.
PriceText == Strip(call.value)

\* The text holds the word "to" in any case: the letters, with a blank or an
\* end of the text on each side.
HasTheWordTo ==
  \E i \in 1..Len(PriceText) :
    /\ PriceText[i].kind = "word" /\ PriceText[i].word \in {"to", "TO"}
    /\ i = 1 \/ IsBlank(PriceText[i - 1])
    /\ i = Len(PriceText) \/ IsBlank(PriceText[i + 1])

\* The text holds " to " in any case: the word with a blank on each side.
HasToBetweenBlanks ==
  \E i \in 2..(Len(PriceText) - 1) :
    /\ PriceText[i].kind = "word" /\ PriceText[i].word \in {"to", "TO"}
    /\ IsBlank(PriceText[i - 1]) /\ IsBlank(PriceText[i + 1])

HasHyphen == \E i \in 1..Len(PriceText) : PriceText[i] = Word("-")

\* The text is empty, is "N/A" in any case, or holds "free" in any case.
PricelessText ==
  \/ PriceText = <<>>
  \/ Len(PriceText) = 1 /\ PriceText[1] \in {Word("N/A"), Word("n/a")}
  \/ \E i \in 1..Len(PriceText) : PriceText[i] \in {Word("Free"), Word("FREE")}

\* The numeric tokens of the text, in order.
PriceNumbers == Numbers(PriceText)

\* The parsed price given whether the text has a range indicator: 0 for a
\* priceless text or one without numbers; the midpoint of the first two
\* numbers, to the cent, for a range; else the first number.
ParsedAs(range) ==
  IF PricelessText \/ PriceNumbers = <<>> THEN result = 0
  ELSE IF Len(PriceNumbers) >= 2 /\ range
       THEN Abs(2 * result - (PriceNumbers[1] + PriceNumbers[2])) <= 1
  ELSE result = PriceNumbers[1]

OutputRows ==
  UNION {Range(stage_scored[k].scored) : k \in 1..Len(stage_scored)}
    \cup Range(selected_rows) \cup Range(selected)

\* C23: every row score_candidates returned at any stage, and every returned
\* row at any match level, has time score exactly 1.0 (never 0.55, 0.25 or
\* 0.2), so its overall score is 0.55 * price_score + 0.45.
C23_TimeScoreAlwaysOne ==
  \A row \in OutputRows :
    /\ row.time_score = 100
    /\ row.overall_score = 550 * row.price_score + 4500 * ScoreScale(prefs.budget)

\* A morning request: an exact-stage row in the morning, and a returned
\* time-flexible row outside the morning, both carrying time score 1.0.
C23_Witness ==
  /\ Done
  /\ prefs.preferred_period = "morning"
  /\ stage_scored[1].scored # <<>>
  /\ \E i \in 1..Len(selected) :
       /\ selected[i]._match_level = MATCH_LEVEL_FLEXIBLE_PERIOD
       /\ selected[i].start_time # NaT
       /\ selected[i].start_time.hour >= 12
       /\ selected[i].time_score = 100

\* C24: with a budget above 0, every row score_candidates returned at any
\* stage and every returned row costs at most the budget and has a price score
\* of at least 0.4: the over-budget scores 0.2, 0.1 and 0.0 never appear.
C24_WithinBudgetOnly ==
  prefs.budget > 0 =>
    \A row \in OutputRows :
      /\ row.estimated_cost <= prefs.budget
      /\ row.price_score >= 4 * ScoreScale(prefs.budget)

\* A budget of $50 and a table holding the $90 event B: rows were returned
\* from an exact and a relaxed stage, B from neither.
C24_Witness ==
  /\ Done
  /\ prefs.budget = 5000
  /\ \E i \in 1..Len(prepared) : prepared[i].estimated_cost = 9000
  /\ Len(stage_scored) >= 2
  /\ stage_scored[2].scored # <<>>
  /\ selected # <<>>

\* An in-budget call of _budget_score scores at least 0.4, whatever the
\* positive budget.
InBudgetScoreAtLeastFloor ==
  (call.fn = "_budget_score" /\ call.budget > 0 /\ call.cost <= call.budget)
    => 10 * result.num >= 4 * result.den

\* C25: a returned row carries the level of the earliest stage that admits
\* it.  A row tagged FLEXIBLE_DATE or FLEXIBLE_PERIOD_AND_DATE is 1 to 3 days
\* from the requested date, never on it; a row tagged FLEXIBLE_PERIOD has no
\* start time or starts in a period other than the requested one; and no
\* stage before the row's own holds the row.
C25_TaggedWithEarliestStage ==
  \A i \in 1..Len(selected) :
    LET row == selected[i]
    IN  /\ DateFlexible(row) =>
             /\ row._date_distance_days \in 1..3
             /\ row.start_time # NaT
             /\ row.start_time.day # RequestedDay
        /\ row._match_level = MATCH_LEVEL_FLEXIBLE_PERIOD =>
             \/ row.start_time = NaT
             \/ PeriodOfHour(row.start_time.hour)
                  # RequestedPeriod(prefs.preferred_period)
        /\ \A k \in 1..Len(stage_scored) :
             MATCH_LEVEL_PRIORITY(stage_scored[k].level) < Priority(row)
               => _candidate_identity(row) \notin Identities(stage_scored[k].scored)

\* A returned table holding an exact row, a time-flexible row and a
\* date-flexible row, the date-flexible stage having seen a row on the date.
C25_Witness ==
  /\ Done
  /\ \E i \in 1..Len(selected) : selected[i]._match_level = MATCH_LEVEL_EXACT
  /\ \E i \in 1..Len(selected) :
       selected[i]._match_level \in
         {MATCH_LEVEL_FLEXIBLE_DATE, MATCH_LEVEL_FLEXIBLE_PERIOD_AND_DATE}
  /\ \E k \in 1..Len(stage_scored) :
       /\ stage_scored[k].level \in
            {MATCH_LEVEL_FLEXIBLE_DATE, MATCH_LEVEL_FLEXIBLE_PERIOD_AND_DATE}
       /\ \E j \in 1..Len(stage_scored[k].scored) :
            stage_scored[k].scored[j]._date_distance_days = 0

\* A returned time-flexible row without start time.
C25_WitnessUntimed ==
  /\ Done
  /\ \E i \in 1..Len(selected) :
       /\ selected[i]._match_level = MATCH_LEVEL_FLEXIBLE_PERIOD
       /\ selected[i].start_time = NaT

\* The candidate passes the price filter of the request.
InPriceRange(row) ==
  /\ prefs.min_price > 0 => row.estimated_cost >= prefs.min_price
  /\ prefs.budget > 0 => row.estimated_cost <= prefs.budget

\* The candidate starts in the requested period, or none is requested.
InRequestedPeriod(row) ==
  RequestedPeriod(prefs.preferred_period) = "any"
    \/ /\ row.start_time # NaT
       /\ PeriodOfHour(row.start_time.hour) = RequestedPeriod(prefs.preferred_period)

\* The candidate is on the requested day, or none is requested.
OnRequestedDay(row) ==
  RequestedDay = NaN \/ (row.start_time # NaT /\ row.start_time.day = RequestedDay)

\* The candidate passes the exact filters of the request.
ExactMatch(row) == InPriceRange(row) /\ InRequestedPeriod(row) /\ OnRequestedDay(row)

\* C26: generate_suggestions applies the exact filters only.  Every suggestion
\* it returns has match_level "exact" and label "Exact match" and is built
\* from a candidate that passes the exact filters, and when no candidate
\* passes them the list is empty, whatever a relaxed stage would have found.
C26_ExactFiltersOnly ==
  SuggestionsReturned =>
    /\ \A k \in 1..Len(suggestions) :
         /\ suggestions[k].match_level = "exact"
         /\ suggestions[k].match_label = "Exact match"
         /\ \E i \in 1..Len(prepared) :
              ExactMatch(prepared[i]) /\ StopOfRow(suggestions[k].stops[1], prepared[i])
    /\ (\A i \in 1..Len(prepared) : ~ExactMatch(prepared[i])) => suggestions = <<>>
    /\ (\E i \in 1..Len(prepared) : ExactMatch(prepared[i])) => suggestions # <<>>

\* An empty list returned although a candidate passes the price and date
\* filters and only misses the requested period.
C26_Witness ==
  /\ SuggestionsReturned
  /\ suggestions = <<>>
  /\ RequestedPeriod(prefs.preferred_period) # "any"
  /\ \E i \in 1..Len(prepared) :
       /\ InPriceRange(prepared[i])
       /\ OnRequestedDay(prepared[i])
       /\ ~InRequestedPeriod(prepared[i])

\* A list of exact suggestions.
C26_WitnessExact ==
  /\ SuggestionsReturned
  /\ Len(suggestions) = 2
  /\ suggestions[2].match_level = "exact"

\* Exactly one of the cached dataset and the recorded load error is set.
OneOfDatasetAndError == (_EVENTS_DF # NoneValue) # (_LOAD_ERROR # NoneValue)

\* C27: over the calls of get_cached_df in one web process, load_events_df
\* is called at most once; once a call has returned exactly one of the cached
\* dataset and the load error is set; every call returns the same value; and
\* after a failed load wizard_generate always redirects to the menu with the
\* error message.
C27_LoadOnceSticky ==
  /\ loads <= 1
  /\ returns # <<>> => OneOfDatasetAndError
  /\ \A i, j \in 1..Len(returns) : returns[i] = returns[j]
  /\ \A i \in 1..Len(responses) :
       (returns[1] = NoneValue /\ responses[i].route = "wizard_generate")
         => responses[i].to = "menu" /\ responses[i].message # NoneValue

====
